---------------------------- MODULE Spec2Model ----------------------------
(***************************************************************************)
(* A model of l2d/utils.py of lidar2dems: classification parameters and    *)
(* file naming, LAS file discovery, the canopy height model, gap filling   *)
(* and the gdalbuildvrt wrapper.                                           *)
(*                                                                         *)
(* Text (file names, patterns, formatted numbers) is a sequence of         *)
(* one-character strings.  A Python value is a record [ty, s]: its type    *)
(* and its text, so that the integer 1 and the string '1' differ although  *)
(* '%s' formats both as "1".                                               *)
(***************************************************************************)
EXTENDS Integers, Sequences, FiniteSets, TLC

VARIABLES
    cp,         \* the last class_params call: its arguments and its outcome
    files,      \* the LAS files on disk: a set of [dir, name, overlap]
    fd,         \* the last file-discovery call: its arguments and its outcome
    chm,        \* the last create_chm call: the two inputs and what was written
    gf,         \* the last gap_fill call: its inputs, the files before and after
    vrt_fs,     \* which mosaic targets exist, and what each was built from
    vrt_log     \* the create_vrt calls made so far

vars == <<cp, files, fd, chm, gf, vrt_fs, vrt_log>>

-----------------------------------------------------------------------------
(* Python values *)

PyNone == [ty |-> "none", s |-> <<"N", "o", "n", "e">>]
PyInt(digits) == [ty |-> "int", s |-> digits]
PyStr(text) == [ty |-> "str", s |-> text]

\* '%s' % v
Fmt(v) == v.s

-----------------------------------------------------------------------------
(* Classification parameters: class_params, class_suffix *)

\* The dict literal of class_params: the preset (slope, cellsize) per class code.
params ==
    [k \in {PyStr(<<"1">>), PyStr(<<"2">>), PyStr(<<"3">>), PyStr(<<"4">>)} |->
        CASE k = PyStr(<<"1">>) -> <<PyInt(<<"1">>), PyInt(<<"3">>)>>
          [] k = PyStr(<<"2">>) -> <<PyInt(<<"1">>), PyInt(<<"2">>)>>
          [] k = PyStr(<<"3">>) -> <<PyInt(<<"5">>), PyInt(<<"2">>)>>
          [] k = PyStr(<<"4">>) -> <<PyInt(<<"1", "0">>), PyInt(<<"2">>)>>]

\* The body of the try block, params[feature['class']]: the pair it returns,
\* or the exception it raises.
ClassLookup(feature) ==
    IF feature = PyNone
    THEN [exc |-> "TypeError"]
    ELSE IF "class" \notin DOMAIN feature.attrs
    THEN [exc |-> "AttributeError"]
    ELSE IF feature.attrs["class"] \notin DOMAIN params
    THEN [exc |-> "KeyError"]
    ELSE [exc |-> "none", val |-> params[feature.attrs["class"]]]

\* The except clause of class_params: the defaults, each kept only where no
\* override was given.
ClassDefaults(slope, cellsize) ==
    <<IF slope = PyNone THEN PyStr(<<"1">>) ELSE slope,
      IF cellsize = PyNone THEN PyStr(<<"3">>) ELSE cellsize>>

\* A plausible slip: only the missing key is caught.
class_params_KeyErrorOnly(feature, slope, cellsize) ==
    IF slope # PyNone /\ cellsize # PyNone
    THEN [kind |-> "ok", val |-> <<slope, cellsize>>]
    ELSE LET r == ClassLookup(feature)
         IN  IF r.exc = "none" THEN [kind |-> "ok", val |-> r.val]
             ELSE IF r.exc = "KeyError"
             THEN [kind |-> "ok", val |-> ClassDefaults(slope, cellsize)]
             ELSE [kind |-> "raised", exc |-> r.exc]

\* A plausible slip: a single override replaces its component of the preset.
class_params_OverridePreset(feature, slope, cellsize) ==
    IF slope # PyNone /\ cellsize # PyNone
    THEN [kind |-> "ok", val |-> <<slope, cellsize>>]
    ELSE LET r == ClassLookup(feature)
         IN  IF r.exc = "none"
             THEN [kind |-> "ok",
                   val |-> <<IF slope = PyNone THEN r.val[1] ELSE slope,
                             IF cellsize = PyNone THEN r.val[2] ELSE cellsize>>]
             ELSE [kind |-> "ok", val |-> ClassDefaults(slope, cellsize)]

class_params(feature, slope, cellsize) ==
    IF slope # PyNone /\ cellsize # PyNone
    THEN [kind |-> "ok", val |-> <<slope, cellsize>>]
    ELSE LET r == ClassLookup(feature)
         IN  IF r.exc = "none"
             THEN [kind |-> "ok", val |-> r.val]
             ELSE [kind |-> "ok", val |-> ClassDefaults(slope, cellsize)]

class_suffix(slope, cellsize, suffix) ==
    suffix \o <<"l", "2", "d", "_", "s">> \o Fmt(slope) \o <<"c">>
           \o Fmt(cellsize) \o <<".", "l", "a", "s">>


-----------------------------------------------------------------------------
(* Text and glob patterns *)

Min(S) == CHOOSE x \in S : \A y \in S : x <= y

Drop(t, k) == SubSeq(t, k + 1, Len(t))

\* glob.has_magic: the pattern holds one of * ? [
HasMagic(pat) == \E i \in 1..Len(pat) : pat[i] \in {"*", "?", "["}

\* fnmatch.translate at a '[' (pat[1]): the index of the ']' that closes the
\* character class, skipping a leading '!' and a ']' that comes first; 0 when
\* no ']' closes it and the '[' stands for itself.
ClassEnd(pat) ==
    LET n == Len(pat)
        j1 == IF 2 <= n /\ pat[2] = "!" THEN 3 ELSE 2
        j2 == IF j1 <= n /\ pat[j1] = "]" THEN j1 + 1 ELSE j1
        closing == {j \in j2..n : pat[j] = "]"}
    IN  IF closing = {} THEN 0 ELSE Min(closing)

\* Whether character ch is in the class written between '[' and ']' (ranges
\* with '-' are not modelled: no text of the model holds a '-').
InClass(stuff, ch) ==
    IF stuff[1] = "!"
    THEN \A i \in 2..Len(stuff) : stuff[i] # ch
    ELSE \E i \in 1..Len(stuff) : stuff[i] = ch

\* fnmatch.fnmatch(name, pat): the whole name matches the translated pattern.
RECURSIVE FnMatch(_, _)
FnMatch(pat, name) ==
    IF pat = <<>> THEN name = <<>>
    ELSE IF pat[1] = "*"
    THEN \E k \in 0..Len(name) : FnMatch(Tail(pat), Drop(name, k))
    ELSE IF name = <<>> THEN FALSE
    ELSE IF pat[1] = "?" THEN FnMatch(Tail(pat), Tail(name))
    ELSE IF pat[1] = "["
    THEN LET j == ClassEnd(pat)
         IN  IF j = 0
             THEN name[1] = "[" /\ FnMatch(Tail(pat), Tail(name))
             ELSE /\ InClass(SubSeq(pat, 2, j - 1), name[1])
                  /\ FnMatch(Drop(pat, j), Tail(name))
    ELSE name[1] = pat[1] /\ FnMatch(Tail(pat), Tail(name))

-----------------------------------------------------------------------------
(* The file system seen by file discovery *)

\* os.path.abspath of a directory argument, the process running in /cwd.
AbsDir(d) == IF d = "" THEN "/cwd" ELSE "/cwd/" \o d

\* The names in directory d (os.listdir).
ListDir(fs, d) == {p.name : p \in {q \in fs : q.dir = AbsDir(d)}}

\* glob.glob(os.path.join(d, pat)) for a directory name without magic: the
\* path itself when the pattern has no magic and the file exists (glob0), the
\* names of the directory that match otherwise, hidden names skipped unless the
\* pattern starts with a dot (glob1).
Glob(fs, d, pat) ==
    IF ~HasMagic(pat)
    THEN {f \in {[dir |-> d, name |-> pat]} : pat \in ListDir(fs, d)}
    ELSE {[dir |-> d, name |-> n] :
            n \in {m \in ListDir(fs, d) :
                     /\ (pat[1] # "." => m[1] # ".")
                     /\ FnMatch(pat, m)}}

\* geo.check_overlap: the files whose bounds intersect the site.
check_overlap(fs, filenames) ==
    {f \in filenames :
        \E q \in fs : q.dir = AbsDir(f.dir) /\ q.name = f.name /\ q.overlap}

\* A slip: the emptiness test comes before the overlap filter.
find_lasfiles_TestBeforeFilter(fs, lasdir, site, checkoverlap) ==
    LET found == Glob(fs, lasdir, <<"*", ".", "l", "a", "s">>)
        kept == IF checkoverlap /\ site # PyNone
                THEN check_overlap(fs, found) ELSE found
    IN  IF found = {}
        THEN [kind |-> "raised", msg |-> "No LAS files found"]
        ELSE [kind |-> "ok", val |-> kept]

find_lasfiles(fs, lasdir, site, checkoverlap) ==
    LET found == Glob(fs, lasdir, <<"*", ".", "l", "a", "s">>)
        kept == IF checkoverlap /\ site # PyNone
                THEN check_overlap(fs, found) ELSE found
    IN  IF kept = {}
        THEN [kind |-> "raised", msg |-> "No LAS files found"]
        ELSE [kind |-> "ok", val |-> kept]

\* The file-name prefix of a site: '' for None, else site.Basename() + '_'.
SitePrefix(site) == IF site = PyNone THEN <<>> ELSE site.Basename \o <<"_">>

\* The pattern find_classified_lasfile globs for.
ClassifiedPattern(site, prm) ==
    SitePrefix(site) \o class_suffix(prm[1], prm[2], <<>>)

find_classified_lasfile(fs, lasdir, site, prm) ==
    LET found == Glob(fs, lasdir, ClassifiedPattern(site, prm))
    IN  IF found = {}
        THEN [kind |-> "raised", msg |-> "No classified LAS files found"]
        ELSE [kind |-> "ok", val |-> found]

\* get_classification_filename with the default suffix: the absolute path of
\* the classified LAS file of a site.
get_classification_filename(site, outdir, slope, cellsize) ==
    LET p == class_params(site, slope, cellsize).val
    IN  [dir |-> AbsDir(outdir),
         name |-> SitePrefix(site) \o class_suffix(p[1], p[2], <<>>)]

-----------------------------------------------------------------------------
(* Inputs *)

NoCall == [op |-> "none"]

\* A vector feature: its basename and its attribute table.
Feature(bname, attrs) == [Basename |-> bname, attrs |-> attrs]

\* The values a 'class' attribute takes in the model: the four codes, an
\* unknown code, the empty string, and the code 1 stored as an integer.
ClassValues ==
    {PyStr(<<"1">>), PyStr(<<"2">>), PyStr(<<"3">>), PyStr(<<"4">>),
     PyStr(<<"5">>), PyStr(<<>>), PyInt(<<"1">>)}

AttrTables == {<<>>} \cup {("class" :> v) : v \in ClassValues}

Features == {PyNone} \cup {Feature(b, a) : b \in {<<"a">>, <<"b">>}, a \in AttrTables}

\* The slope and cellsize arguments: absent, or a number or a string.
Overrides == {PyNone, PyInt(<<"1">>), PyInt(<<"7">>), PyStr(<<"2">>)}

Dirs == {"", "out"}

-----------------------------------------------------------------------------
(* Actions: classification parameters *)

IdleFiles == files = {} /\ fd = NoCall
IdleChm == chm = NoCall
IdleGap == gf = NoCall
IdleVrt == vrt_fs = <<>> /\ vrt_log = <<>>

ClassParams ==
    /\ \E feature \in Features, slope \in Overrides, cellsize \in Overrides :
         cp' = [op |-> "class_params", feature |-> feature, slope |-> slope,
                cellsize |-> cellsize,
                ret |-> class_params(feature, slope, cellsize)]
    /\ UNCHANGED <<files, fd, chm, gf, vrt_fs, vrt_log>>

InitClass == cp = NoCall /\ IdleFiles /\ IdleChm /\ IdleGap /\ IdleVrt

SpecClass == InitClass /\ [][ClassParams]_vars

-----------------------------------------------------------------------------
(* Actions: file discovery *)

MaxFiles == 2

\* File names of the discovery model: LAS files, a hidden one, another kind
\* of file, and two classified LAS files.
FindNames ==
    {<<"a", ".", "l", "a", "s">>, <<"b", ".", "l", "a", "s">>,
     <<".", "l", "a", "s">>, <<"a", ".", "t", "x", "t">>,
     <<"l", "2", "d", "_", "s", "1", "c", "3", ".", "l", "a", "s">>,
     <<"a", "_", "l", "2", "d", "_", "s", "1", "c", "3", ".", "l", "a", "s">>}

FindPaths == {[dir |-> AbsDir(d), name |-> n] : d \in Dirs, n \in FindNames}

\* The directory trees of at most MaxFiles files, each file overlapping the
\* site or not.
FindTrees ==
    UNION {{{[dir |-> q.dir, name |-> q.name, overlap |-> o[q]] : q \in P} :
              o \in [P -> BOOLEAN]} :
           P \in {Q \in SUBSET FindPaths : Cardinality(Q) <= MaxFiles}}

FindSites == {PyNone, Feature(<<"a">>, <<>>)}

FindParams ==
    {<<PyStr(<<"1">>), PyStr(<<"3">>)>>, <<PyInt(<<"1">>), PyInt(<<"3">>)>>,
     <<PyInt(<<"1">>), PyInt(<<"2">>)>>}

FindLas ==
    /\ \E lasdir \in Dirs, site \in FindSites, checkoverlap \in BOOLEAN :
         fd' = [op |-> "find_lasfiles", lasdir |-> lasdir, site |-> site,
                checkoverlap |-> checkoverlap,
                ret |-> find_lasfiles(files, lasdir, site, checkoverlap)]
    /\ UNCHANGED <<cp, files, chm, gf, vrt_fs, vrt_log>>

FindClassified(lasdir, site, prm) ==
    /\ fd' = [op |-> "find_classified_lasfile", lasdir |-> lasdir,
              site |-> site, params |-> prm,
              ret |-> find_classified_lasfile(files, lasdir, site, prm)]
    /\ UNCHANGED <<cp, files, chm, gf, vrt_fs, vrt_log>>

FindClassifiedAny ==
    \E lasdir \in Dirs, site \in FindSites, prm \in FindParams :
        FindClassified(lasdir, site, prm)

InitFind ==
    /\ files \in FindTrees
    /\ fd = NoCall
    /\ cp = NoCall /\ IdleChm /\ IdleGap /\ IdleVrt

NextFind == FindLas \/ FindClassifiedAny

SpecFind == InitFind /\ [][NextFind]_vars

-----------------------------------------------------------------------------
(* Actions: writing a classified LAS file and finding it again *)

MaxBase == 3
MaxWritten == 1

RoundAlphabet == {"a", "[", "]"}

BaseNames == UNION {[1..n -> RoundAlphabet] : n \in 1..MaxBase}

RoundSites ==
    {PyNone} \cup
    {Feature(b, a) : b \in BaseNames, a \in {<<>>, ("class" :> PyStr(<<"2">>))}}

RoundSlopes == {PyNone, PyInt(<<"5">>)}
RoundCellsizes == {PyNone, PyStr(<<"2">>)}

\* The classification step stores its output under the generated name.
WriteClassified ==
    /\ Cardinality(files) < MaxWritten
    /\ \E site \in RoundSites, outdir \in Dirs,
          slope \in RoundSlopes, cellsize \in RoundCellsizes :
         LET f == get_classification_filename(site, outdir, slope, cellsize)
         IN  files' = {q \in files : q.dir # f.dir \/ q.name # f.name}
                        \cup {[dir |-> f.dir, name |-> f.name, overlap |-> TRUE]}
    /\ fd' = NoCall
    /\ UNCHANGED <<cp, chm, gf, vrt_fs, vrt_log>>

\* The search for a classified file, with the parameters of the site; one
\* search is looked at per directory content (a search changes no file).
FindClassifiedOfParams ==
    /\ fd = NoCall
    /\ \E outdir \in Dirs, site \in RoundSites,
          slope \in RoundSlopes, cellsize \in RoundCellsizes :
         FindClassified(outdir, site, class_params(site, slope, cellsize).val)

InitRound == cp = NoCall /\ IdleFiles /\ IdleChm /\ IdleGap /\ IdleVrt

NextRound == WriteClassified \/ FindClassifiedOfParams

SpecRound == InitRound /\ [][NextRound]_vars

-----------------------------------------------------------------------------
(* Rasters and the canopy height model: create_chm *)

MaxRows == 2
MaxCols == 2

\* The values of a cell of an input raster.  Cells are integers, and the
\* difference of two cells is exact.
CellValues == {0, 1}

Cells(r, c) == (1..r) \X (1..c)

\* A single-band array of r rows and c columns (numpy's shape is (r, c)).
Array(r, c, val) == [rows |-> r, cols |-> c, val |-> val]

Arrays(r, c, V) == {Array(r, c, v) : v \in [Cells(r, c) -> V]}

\* A raster file: its nodata value and its band.
Raster(nodata, arr) == [nodata |-> nodata, arr |-> arr]

\* arr[0:r, :]
SliceRows(a, r) == Array(r, a.cols, [p \in Cells(r, a.cols) |-> a.val[p]])

\* arr[:, 0:c]
SliceCols(a, c) == Array(a.rows, c, [p \in Cells(a.rows, c) |-> a.val[p]])

\* A slip: the bottom rows are kept instead of the top ones.
ClipTo_FromBottom(a, b) ==
    LET a1 == IF a.rows > b.rows
              THEN Array(b.rows, a.cols,
                         [p \in Cells(b.rows, a.cols) |->
                             a.val[<<p[1] + a.rows - b.rows, p[2]>>]])
              ELSE a
    IN  IF a1.cols > b.cols THEN SliceCols(a1, b.cols) ELSE a1

\* "ensure same size arrays, clip to smallest": array a against the shape of
\* the other array b.
ClipTo(a, b) ==
    LET a1 == IF a.rows > b.rows THEN SliceRows(a, b.rows) ELSE a
    IN  IF a1.cols > b.cols THEN SliceCols(a1, b.cols) ELSE a1

\* A slip: the surface mask is left out.
create_chm_NoSurfaceMask(dtm, dsm) ==
    LET dsm_arr == ClipTo(dsm.arr, dtm.arr)
        dtm_arr == ClipTo(dtm.arr, dsm.arr)
        nodata == dtm.nodata
    IN  [nodata |-> nodata,
         written |-> Array(dsm_arr.rows, dsm_arr.cols,
             [p \in Cells(dsm_arr.rows, dsm_arr.cols) |->
                 IF dtm_arr.val[p] = dtm.nodata THEN nodata
                 ELSE dsm_arr.val[p] - dtm_arr.val[p]])]

\* create_chm: the nodata value set on the output and the array written to it.
create_chm(dtm, dsm) ==
    LET dsm_arr == ClipTo(dsm.arr, dtm.arr)
        dtm_arr == ClipTo(dtm.arr, dsm.arr)
        nodata == dtm.nodata
        diff == [p \in Cells(dsm_arr.rows, dsm_arr.cols) |->
                    dsm_arr.val[p] - dtm_arr.val[p]]
        ground == [p \in DOMAIN diff |->
                    IF dtm_arr.val[p] = dtm.nodata THEN nodata ELSE diff[p]]
        surface == [p \in DOMAIN diff |->
                    IF dsm_arr.val[p] = dsm.nodata THEN nodata ELSE ground[p]]
    IN  [nodata |-> nodata,
         written |-> Array(dsm_arr.rows, dsm_arr.cols, surface)]

CreateChm ==
    /\ chm = NoCall
    /\ \E r1 \in 1..MaxRows, c1 \in 1..MaxCols, r2 \in 1..MaxRows,
          c2 \in 1..MaxCols, nd1 \in CellValues, nd2 \in CellValues :
         \E v1 \in [Cells(r1, c1) -> CellValues],
            v2 \in [Cells(r2, c2) -> CellValues] :
           LET dtm == Raster(nd1, Array(r1, c1, v1))
               dsm == Raster(nd2, Array(r2, c2, v2))
           IN  chm' = [op |-> "create_chm", dtm |-> dtm, dsm |-> dsm,
                       out |-> create_chm(dtm, dsm)]
    /\ UNCHANGED <<cp, files, fd, gf, vrt_fs, vrt_log>>

InitChm == cp = NoCall /\ IdleFiles /\ IdleChm /\ IdleGap /\ IdleVrt

SpecChm == InitChm /\ [][CreateChm]_vars

-----------------------------------------------------------------------------
(* Gap filling: gap_fill *)

MaxRasters == 3

\* The code points of the characters of raster file names.
Ord == [ch \in {".", "0", "1", "2", "r"} |->
          CASE ch = "." -> 46 [] ch = "0" -> 48 [] ch = "1" -> 49
            [] ch = "2" -> 50 [] ch = "r" -> 114]

\* Python's order of two strings: by code point, a proper prefix first.
RECURSIVE TextLess(_, _)
TextLess(a, b) ==
    IF b = <<>> THEN FALSE
    ELSE IF a = <<>> THEN TRUE
    ELSE IF a[1] # b[1] THEN Ord[a[1]] < Ord[b[1]]
    ELSE TextLess(Tail(a), Tail(b))

\* One step of a sort: x put into the ascending list s.
RECURSIVE Insert(_, _)
Insert(x, s) ==
    IF s = <<>> THEN <<x>>
    ELSE IF TextLess(s[1], x) THEN <<s[1]>> \o Insert(x, Tail(s))
    ELSE <<x>> \o s

\* A slip: the list is processed in the order given.
Sorted_AsGiven(s) == s

\* sorted(filenames)
RECURSIVE Sorted(_)
Sorted(s) == IF s = <<>> THEN <<>> ELSE Insert(s[1], Sorted(Tail(s)))

\* One pass of the merge loop: the cells of arr that equal nodata take the
\* value the next image has there.
FillFrom(arr, nodata, img) ==
    Array(arr.rows, arr.cols,
          [p \in DOMAIN arr.val |->
              IF arr.val[p] = nodata THEN img.val[p] ELSE arr.val[p]])

\* The merge loop over images i..n of the sorted list.
RECURSIVE MergeLoop(_, _, _, _)
MergeLoop(arr, nodata, imgs, i) ==
    IF i > Len(imgs) THEN arr
    ELSE MergeLoop(FillFrom(arr, nodata, imgs[i].arr), nodata, imgs, i + 1)

\* The square of the distance of two cells, in rows and columns.
Dist2(p, q) == (p[1] - q[1]) * (p[1] - q[1]) + (p[2] - q[2]) * (p[2] - q[2])

GoodLocs(arr, nodata) == {p \in DOMAIN arr.val : arr.val[p] # nodata}
BadLocs(arr, nodata) == {p \in DOMAIN arr.val : arr.val[p] = nodata}

\* A slip: any valid cell serves.
Nearest_AnyGood(arr, nodata, p) == GoodLocs(arr, nodata)

\* The valid cells nearest to cell p.
Nearest(arr, nodata, p) ==
    {g \in GoodLocs(arr, nodata) :
        \A h \in GoodLocs(arr, nodata) : Dist2(p, g) <= Dist2(p, h)}

\* All ways to give each cell of todo one of its candidate values.
RECURSIVE Assign(_, _, _)
Assign(val, todo, cand) ==
    IF todo = {} THEN {val}
    ELSE LET p == CHOOSE q \in todo : TRUE
         IN  UNION {Assign([val EXCEPT ![p] = v], todo \ {p}, cand) :
                      v \in cand[p]}

\* griddata(goodlocs, arr[goodlocs], badlocs, method='nearest') stored at
\* badlocs: each nodata cell takes the value of a nearest valid cell, any of
\* them when several are as near.  Without a valid cell griddata raises, and
\* the set is empty.
Interpolated(arr, nodata) ==
    LET cand == [p \in BadLocs(arr, nodata) |->
                    {arr.val[g] : g \in Nearest(arr, nodata, p)}]
    IN  IF GoodLocs(arr, nodata) = {} THEN {}
        ELSE {Array(arr.rows, arr.cols, v) :
                v \in Assign(arr.val, BadLocs(arr, nodata), cand)}

-----------------------------------------------------------------------------
(* Output files of gap_fill: splitexts, the clip and the replacement *)

\* The last position of character ch in text t, 0 when it has none.
LastIndex(t, ch) ==
    LET at == {i \in 1..Len(t) : t[i] = ch}
    IN  IF at = {} THEN 0 ELSE CHOOSE i \in at : \A j \in at : j <= i

\* os.path.splitext: the text is split before its last dot, when that dot is
\* in the last path component and some character other than a dot precedes
\* it there.
splitext(p) ==
    LET sep == LastIndex(p, "/")
        dot == LastIndex(p, ".")
    IN  IF dot > sep /\ \E k \in (sep + 1)..(dot - 1) : p[k] # "."
        THEN <<SubSeq(p, 1, dot - 1), SubSeq(p, dot, Len(p))>>
        ELSE <<p, <<>>>>

\* The product extensions splitexts knows.
ProductExts ==
    {<<".", "d", "e", "n">>, <<".", "m", "i", "n">>, <<".", "m", "a", "x">>,
     <<".", "m", "e", "a", "n">>, <<".", "i", "d", "w">>,
     <<".", "c", "o", "u", "n", "t">>}

\* splitexts(filename): the base name and up to two extensions.
splitexts(filename) ==
    LET one == splitext(filename)
        parts == splitext(one[1])
    IN  IF parts[2] \in ProductExts
        THEN <<parts[1], parts[2] \o one[2]>>
        ELSE one

\* _fout = parts[0] + '_clip' + parts[1]
ClipName(fout) ==
    LET parts == splitexts(fout)
    IN  parts[1] \o <<"_", "c", "l", "i", "p">> \o parts[2]

TifExt == <<".", "t", "i", "f">>

\* imgout.Filename(): the raster library stores a new image under the name
\* given, or under that name with the format's extension added when it lacks
\* it.
GippyName(fout, appends) ==
    IF appends /\ splitext(fout)[2] # TifExt THEN fout \o TifExt ELSE fout

\* A file system is a function from paths to contents.
WriteFile(fs, path, content) ==
    [q \in DOMAIN fs \cup {path} |-> IF q = path THEN content ELSE fs[q]]

\* os.remove(path)
RemoveFile(fs, path) == [q \in DOMAIN fs \ {path} |-> fs[q]]

\* os.rename(src, dst)
RenameFile(fs, src, dst) ==
    [q \in (DOMAIN fs \ {src}) \cup {dst} |-> IF q = dst THEN fs[src] ELSE fs[q]]

Unclipped(arr) == [kind |-> "raster", clipped |-> FALSE, arr |-> arr]

\* CookieCutter(GeoImages([fout]), site, _fout, ...): the raster at fout cut
\* to the site, stored at _fout.
CookieCutter(fs, fout, tmp) ==
    WriteFile(fs, tmp, [kind |-> "raster", clipped |-> TRUE, arr |-> fs[fout].arr])

\* A slip: the clip is copied over the output and stays where it was.
ReplaceByClip_Copy(fs, fout, tmp) ==
    {[err |-> "none",
      fs |-> IF fout \in DOMAIN fs THEN WriteFile(fs, fout, fs[tmp]) ELSE fs]}

\* if os.path.exists(fout): os.remove(fout); os.rename(_fout, fout)
\* The outcomes: os.remove or os.rename may raise OSError, which gap_fill
\* does not catch, or both succeed.
ReplaceByClip(fs, fout, tmp) ==
    IF fout \in DOMAIN fs
    THEN {[err |-> "os.remove", fs |-> fs],
          [err |-> "os.rename", fs |-> RemoveFile(fs, fout)],
          [err |-> "none", fs |-> RenameFile(RemoveFile(fs, fout), tmp, fout)]}
    ELSE {[err |-> "none", fs |-> fs]}

\* The outcomes of gap_fill(filenames, fout, site) with interpolation
\* 'nearest': disk holds the rasters named, fs the other files; appends tells
\* how the raster library names a new file.
gap_fill(filenames, disk, fout, site, fs, appends) ==
    IF Len(filenames) = 0
    THEN {[ret |-> [kind |-> "raised", msg |-> "No filenames provided!"],
           post |-> fs]}
    ELSE LET names == Sorted(filenames)
             imgs == [i \in 1..Len(names) |-> disk[names[i]]]
             nodata == imgs[1].nodata
             merged == MergeLoop(imgs[1].arr, nodata, imgs, 2)
             path == GippyName(fout, appends)
             tmp == ClipName(path)
         IN  IF GoodLocs(merged, nodata) = {}
             THEN {[ret |-> [kind |-> "raised", msg |-> "griddata"],
                    order |-> names, nodata |-> nodata, merged |-> merged,
                    post |-> fs]}
             ELSE UNION {
                   LET written == WriteFile(fs, path, Unclipped(arr))
                       ends == IF site = PyNone
                               THEN {[err |-> "none", fs |-> written]}
                               ELSE ReplaceByClip(CookieCutter(written, path, tmp),
                                                  path, tmp)
                   IN  {[ret |-> IF e.err = "none"
                                 THEN [kind |-> "ok", val |-> path]
                                 ELSE [kind |-> "raised", msg |-> e.err],
                         order |-> names, nodata |-> nodata, merged |-> merged,
                         out |-> arr, path |-> path, post |-> e.fs] : e \in ends} :
                   arr \in Interpolated(merged, nodata)}

\* The orders a list of the names in S can be passed in.
Perms(S) ==
    {s \in [1..Cardinality(S) -> S] : \A i, j \in DOMAIN s : s[i] = s[j] => i = j}

\* Whether a list of names is in ascending order as passed.
IsAscending(s) == \A i \in 1..(Len(s) - 1) : TextLess(s[i], s[i + 1])

\* A gap_fill call.  disk holds the input rasters by file name and fs the
\* files at the output paths before the call; the call records whether the
\* list was passed in ascending order.  One call is looked at per behaviour.
GapFill(filenames, disk, fout, site, fs, appends) ==
    /\ \E o \in gap_fill(filenames, disk, fout, site, fs, appends) :
         gf' = [op |-> "gap_fill", ascending |-> IsAscending(filenames),
                disk |-> disk, fout |-> fout, site |-> site, pre |-> fs,
                res |-> o]
    /\ UNCHANGED <<cp, files, fd, chm, vrt_fs, vrt_log>>

\* The names of the rasters of increasing radius, in no particular order.
NameSeq == <<<<"r", "2">>, <<"r", "1", "0">>, <<"r", "1">>, <<"r", "2", "0">>,
             <<"r", "1", "1">>>>

GapNames == {NameSeq[i] : i \in 1..MaxRasters}

OTif == <<"o", ".", "t", "i", "f">>

\* Merging: up to MaxRasters rasters of one row and two columns, passed in
\* any order.  The rasters of one call are products of one gridding run and
\* share their nodata value.  The output name ends in the format's extension
\* and is stored as given.
GapFillMerge ==
    /\ gf = NoCall
    /\ \E N \in SUBSET GapNames, nd \in {0, 1} :
         \E disk \in [N -> {Raster(nd, a) : a \in Arrays(1, 2, {0, 1, 2})}],
            filenames \in Perms(N) :
             GapFill(filenames, disk, OTif, PyNone, <<>>, TRUE)

InitGap == cp = NoCall /\ IdleFiles /\ IdleChm /\ IdleGap /\ IdleVrt

\* Interpolation: one raster of up to MaxRows rows and MaxCols columns.
GapFillOne ==
    /\ gf = NoCall
    /\ \E r \in 1..MaxRows, c \in 1..MaxCols, nd \in {0, 1} :
         \E v \in [Cells(r, c) -> {0, 1, 2}] :
             GapFill(<<NameSeq[1]>>, (NameSeq[1] :> Raster(nd, Array(r, c, v))),
                     OTif, PyNone, <<>>, TRUE)

NextGap == GapFillMerge \/ GapFillOne

SpecGap == InitGap /\ [][NextGap]_vars

-----------------------------------------------------------------------------
(* Actions: gap_fill with a site *)

\* Output names: with one extension, with a product extension before it,
\* with another dot, without an extension, under a directory with a dot, and
\* starting with a dot.
OutNames ==
    {<<"d", ".", "t", "i", "f">>,
     <<"d", ".", "i", "d", "w", ".", "t", "i", "f">>,
     <<"d", ".", "x", ".", "t", "i", "f">>,
     <<"d">>,
     <<"d", ".", "i", "d", "w">>,
     <<"o", ".", "d", "/", "f">>,
     <<".", "i", "d", "w", ".", "t", "i", "f">>,
     <<"d", ".", "c", "o", "u", "n", "t", ".", "t", "i", "f">>}

Old == [kind |-> "old"]

\* The paths a call with output name fout may touch.
ClipPaths(fout) ==
    {fout, fout \o TifExt, ClipName(fout), ClipName(fout \o TifExt)}

TheSite == Feature(<<"a">>, <<>>)

\* gap_fill of one raster of one row and two columns with a site, each of the
\* paths it may touch holding an older file or not.
GapFillSite ==
    /\ gf = NoCall
    /\ \E fout \in OutNames, appends \in BOOLEAN :
         \E v \in [Cells(1, 2) -> {0, 1, 2}], P \in SUBSET ClipPaths(fout) :
             GapFill(<<NameSeq[1]>>, (NameSeq[1] :> Raster(0, Array(1, 2, v))),
                     fout, TheSite, [q \in P |-> Old], appends)

SpecClip == InitGap /\ [][GapFillSite]_vars

-----------------------------------------------------------------------------
(* create_vrt *)

MaxCalls == 3

\* site=[None], the default: a list whose first element is None.
NoSite == <<PyNone>>

\* The bounds of the site's vector, an opaque value.
get_vector_bounds(site) == [bounds_of |-> site[1]]

\* The command line create_vrt builds, as the list of its parts.
VrtCmd(filenames, fout, site, verbose) ==
    <<"gdalbuildvrt">>
    \o (IF ~verbose THEN <<"-q">> ELSE <<>>)
    \o (IF site[1] # PyNone THEN <<"-te", get_vector_bounds(site)>> ELSE <<>>)
    \o <<fout>>
    \o filenames

\* os.system(' '.join(cmd)): the tool either builds the mosaic at fout or
\* fails and leaves the files as they are; its exit status is dropped.
System(fs, cmd, fout, built) ==
    IF built THEN WriteFile(fs, fout, [kind |-> "vrt", cmd |-> cmd]) ELSE fs

\* A slip: the existing target is not looked at.
create_vrt_AlwaysBuild(fs, filenames, fout, site, overwrite, verbose, built) ==
    LET cmd == VrtCmd(filenames, fout, site, verbose)
    IN  [ret |-> fout, invoked |-> TRUE, fs |-> System(fs, cmd, fout, built)]

\* create_vrt(filenames, fout, site, overwrite, verbose) in the file system
\* fs; built tells whether the tool, if run, builds the file.
create_vrt(fs, filenames, fout, site, overwrite, verbose, built) ==
    IF fout \in DOMAIN fs /\ ~overwrite
    THEN [ret |-> fout, invoked |-> FALSE, fs |-> fs]
    ELSE LET cmd == VrtCmd(filenames, fout, site, verbose)
         IN  [ret |-> fout, invoked |-> TRUE, fs |-> System(fs, cmd, fout, built)]

VrtTargets == {"m.vrt", "n.vrt"}
VrtInputs == {<<"x.tif">>, <<"x.tif", "y.tif">>}
VrtSites == {NoSite, <<TheSite>>}

\* One call of create_vrt; the log keeps what the call found and did.
CreateVrt ==
    /\ Len(vrt_log) < MaxCalls
    /\ \E filenames \in VrtInputs, fout \in VrtTargets, site \in VrtSites,
          overwrite \in BOOLEAN, verbose \in BOOLEAN, built \in BOOLEAN :
         LET res == create_vrt(vrt_fs, filenames, fout, site, overwrite,
                               verbose, built)
         IN  /\ vrt_fs' = res.fs
             /\ vrt_log' = Append(vrt_log,
                    [fout |-> fout, overwrite |-> overwrite,
                     existed |-> fout \in DOMAIN vrt_fs,
                     invoked |-> res.invoked, ret |-> res.ret,
                     same |-> res.fs = vrt_fs,
                     present |-> fout \in DOMAIN res.fs])
    /\ UNCHANGED <<cp, files, fd, chm, gf>>

\* Each target exists already or not.
InitVrt ==
    /\ cp = NoCall /\ IdleFiles /\ IdleChm /\ IdleGap
    /\ vrt_log = <<>>
    /\ \E P \in SUBSET VrtTargets : vrt_fs = [q \in P |-> Old]

SpecVrt == InitVrt /\ [][CreateVrt]_vars

-----------------------------------------------------------------------------
(* Claims about class_params, checked under SpecClass *)

BothOverrides == cp.slope # PyNone /\ cp.cellsize # PyNone

HasClass(code) ==
    /\ cp.feature # PyNone
    /\ "class" \in DOMAIN cp.feature.attrs
    /\ cp.feature.attrs["class"] = PyStr(code)

Returned(slope, cellsize) == cp.ret = [kind |-> "ok", val |-> <<slope, cellsize>>]

\* C5: for a feature whose class is "1", "2", "3" or "4" class_params returns
\* (1,3), (1,2), (5,2), (10,2), whatever single override is given; with both
\* overrides it returns (slope, cellsize) whatever the feature.
C5_PresetLookup ==
    cp.op = "class_params" =>
        /\ BothOverrides => Returned(cp.slope, cp.cellsize)
        /\ ~BothOverrides =>
            /\ HasClass(<<"1">>) => Returned(PyInt(<<"1">>), PyInt(<<"3">>))
            /\ HasClass(<<"2">>) => Returned(PyInt(<<"1">>), PyInt(<<"2">>))
            /\ HasClass(<<"3">>) => Returned(PyInt(<<"5">>), PyInt(<<"2">>))
            /\ HasClass(<<"4">>) => Returned(PyInt(<<"1", "0">>), PyInt(<<"2">>))

\* A call with class "4" and a slope override alone returned the preset (10, 2).
C5_Witness ==
    /\ cp.op = "class_params"
    /\ HasClass(<<"4">>)
    /\ cp.slope = PyInt(<<"7">>) /\ cp.cellsize = PyNone
    /\ Returned(PyInt(<<"1", "0">>), PyInt(<<"2">>))

\* The feature is None, has no 'class' attribute, or carries a code that is
\* none of "1", "2", "3", "4".
LookupFails ==
    \/ cp.feature = PyNone
    \/ "class" \notin DOMAIN cp.feature.attrs
    \/ cp.feature.attrs["class"] \notin
         {PyStr(<<"1">>), PyStr(<<"2">>), PyStr(<<"3">>), PyStr(<<"4">>)}

\* C6 as stated: on a failed lookup class_params returns the integers (1, 3),
\* each replaced by its override when one is given.
C6_DefaultIsIntegerPair ==
    cp.op = "class_params" /\ LookupFails =>
        Returned(IF cp.slope = PyNone THEN PyInt(<<"1">>) ELSE cp.slope,
                 IF cp.cellsize = PyNone THEN PyInt(<<"3">>) ELSE cp.cellsize)

\* C6 as amended: on a failed lookup class_params does not raise and returns
\* the strings ('1', '3'), each replaced by its override when one is given.
C6_DefaultIsStringPair ==
    cp.op = "class_params" /\ LookupFails =>
        Returned(IF cp.slope = PyNone THEN PyStr(<<"1">>) ELSE cp.slope,
                 IF cp.cellsize = PyNone THEN PyStr(<<"3">>) ELSE cp.cellsize)

\* A call with no feature and a cellsize override alone returned ('1', 2-as-given).
C6_Witness ==
    /\ cp.op = "class_params"
    /\ cp.feature = PyNone
    /\ cp.slope = PyNone /\ cp.cellsize = PyStr(<<"2">>)
    /\ Returned(PyStr(<<"1">>), PyStr(<<"2">>))

-----------------------------------------------------------------------------
(* Claims about file discovery, checked under SpecFind *)

EndsWithLas(n) == Len(n) >= 4 /\ SubSeq(n, Len(n) - 3, Len(n)) = <<".", "l", "a", "s">>

\* The LAS files find_lasfiles is asked for: those of the directory that are
\* not hidden and, when the overlap check applies, intersect the site.
WantedLas ==
    {q \in files :
        /\ q.dir = AbsDir(fd.lasdir)
        /\ EndsWithLas(q.name) /\ q.name[1] # "."
        /\ (fd.checkoverlap /\ fd.site # PyNone => q.overlap)}

\* The file find_classified_lasfile is asked for.
WantedClassified ==
    {q \in files :
        /\ q.dir = AbsDir(fd.lasdir)
        /\ q.name = SitePrefix(fd.site) \o <<"l", "2", "d", "_", "s">>
                      \o fd.params[1].s \o <<"c">> \o fd.params[2].s
                      \o <<".", "l", "a", "s">>}

\* C7: discovery raises whenever the set of matching files is empty (also when
\* the overlap filter empties it), and every list it returns is non-empty.
C7_NeverEmpty ==
    /\ fd.op = "find_lasfiles" =>
        /\ WantedLas = {} => fd.ret.kind = "raised"
        /\ fd.ret.kind = "ok" =>
             /\ fd.ret.val # {}
             /\ fd.ret.val = {[dir |-> fd.lasdir, name |-> q.name] : q \in WantedLas}
    /\ fd.op = "find_classified_lasfile" =>
        /\ WantedClassified = {} => fd.ret.kind = "raised"
        /\ fd.ret.kind = "ok" => fd.ret.val # {}

\* find_lasfiles raised although the directory holds LAS files: the overlap
\* check removed every one of them.
C7_Witness ==
    /\ fd.op = "find_lasfiles"
    /\ fd.checkoverlap /\ fd.site # PyNone
    /\ \E q \in files : q.dir = AbsDir(fd.lasdir) /\ EndsWithLas(q.name)
                          /\ q.name[1] # "."
    /\ fd.ret.kind = "raised"

-----------------------------------------------------------------------------
(* Claims about classified LAS names, checked under SpecRound *)

\* C10: the name generated for (site, outdir, slope, cellsize) is
\* '<basename>_l2d_s<slope>c<cellsize>.las' (no prefix without a site), and a
\* file stored under it is found by find_classified_lasfile called with the
\* same directory and site and with params = class_params(site, slope, cellsize).
C10_RoundTrip ==
    fd.op = "find_classified_lasfile" =>
        \A slope \in RoundSlopes, cellsize \in RoundCellsizes :
            LET gen == get_classification_filename(fd.site, fd.lasdir, slope, cellsize)
                p == class_params(fd.site, slope, cellsize).val
            IN  /\ gen.name = (IF fd.site = PyNone THEN <<>>
                               ELSE fd.site.Basename \o <<"_">>)
                              \o <<"l", "2", "d", "_", "s">> \o p[1].s \o <<"c">>
                              \o p[2].s \o <<".", "l", "a", "s">>
                /\ (/\ fd.params = p
                    /\ \E q \in files : q.dir = gen.dir /\ q.name = gen.name)
                   => /\ fd.ret.kind = "ok"
                      /\ [dir |-> fd.lasdir, name |-> gen.name] \in fd.ret.val

-----------------------------------------------------------------------------
(* Claims about create_chm, checked under SpecChm *)

SameShape(a, b) == a.rows = b.rows /\ a.cols = b.cols

Smaller(m, n) == IF m < n THEN m ELSE n

\* What a CHM cell has to be, from the cells of the two inputs at the same
\* row and column.
ChmCell(p) ==
    IF \/ chm.dtm.arr.val[p] = chm.dtm.nodata
       \/ chm.dsm.arr.val[p] = chm.dsm.nodata
    THEN chm.dtm.nodata
    ELSE chm.dsm.arr.val[p] - chm.dtm.arr.val[p]

\* C1: for a DTM and a DSM of the same shape every written cell is the DTM's
\* nodata value where the DTM cell or the DSM cell is nodata and dsm - dtm
\* elsewhere, and the output's nodata value is the DTM's.
C1_EqualExtent ==
    chm.op = "create_chm" /\ SameShape(chm.dtm.arr, chm.dsm.arr) =>
        /\ chm.out.nodata = chm.dtm.nodata
        /\ SameShape(chm.out.written, chm.dtm.arr)
        /\ \A p \in Cells(chm.dtm.arr.rows, chm.dtm.arr.cols) :
             chm.out.written.val[p] = ChmCell(p)

\* Two 2 x 2 rasters with different nodata values: one cell is masked by the
\* DSM alone, where the difference is not the nodata value, and another is a
\* plain difference.
C1_Witness ==
    /\ chm.op = "create_chm"
    /\ chm.dtm.arr.rows = 2 /\ chm.dtm.arr.cols = 2
    /\ SameShape(chm.dtm.arr, chm.dsm.arr)
    /\ chm.dtm.nodata # chm.dsm.nodata
    /\ \E p \in Cells(2, 2) :
         /\ chm.dtm.arr.val[p] # chm.dtm.nodata
         /\ chm.dsm.arr.val[p] = chm.dsm.nodata
         /\ chm.out.written.val[p] = chm.dtm.nodata
         /\ chm.dsm.arr.val[p] - chm.dtm.arr.val[p] # chm.dtm.nodata
    /\ \E p \in Cells(2, 2) :
         /\ chm.dtm.arr.val[p] # chm.dtm.nodata
         /\ chm.dsm.arr.val[p] # chm.dsm.nodata
         /\ chm.out.written.val[p] = chm.dsm.arr.val[p] - chm.dtm.arr.val[p]

\* C2: for a DTM and a DSM of different shapes the written array has the
\* smaller row count and the smaller column count, and its cell (i, j) comes
\* from cell (i, j) of both originals.
C2_UnequalExtent ==
    chm.op = "create_chm" /\ ~SameShape(chm.dtm.arr, chm.dsm.arr) =>
        /\ chm.out.written.rows = Smaller(chm.dtm.arr.rows, chm.dsm.arr.rows)
        /\ chm.out.written.cols = Smaller(chm.dtm.arr.cols, chm.dsm.arr.cols)
        /\ DOMAIN chm.out.written.val =
             Cells(chm.out.written.rows, chm.out.written.cols)
        /\ \A p \in DOMAIN chm.out.written.val :
             chm.out.written.val[p] = ChmCell(p)

\* The DTM has more rows, the DSM more columns: both were cut, and a row of
\* the DTM that was cut away differs from the row that was kept.
C2_Witness ==
    /\ chm.op = "create_chm"
    /\ chm.dtm.arr.rows = 2 /\ chm.dtm.arr.cols = 1
    /\ chm.dsm.arr.rows = 1 /\ chm.dsm.arr.cols = 2
    /\ chm.dtm.arr.val[<<1, 1>>] # chm.dtm.arr.val[<<2, 1>>]
    /\ chm.out.written.rows = 1 /\ chm.out.written.cols = 1

-----------------------------------------------------------------------------
(* Claims about gap_fill without a site, checked under SpecGap *)

\* The place of each raster name in ascending order of file names.
Rank == (<<"r", "1">> :> 1) @@ (<<"r", "1", "0">> :> 2) @@ (<<"r", "1", "1">> :> 3)
        @@ (<<"r", "2">> :> 4) @@ (<<"r", "2", "0">> :> 5)

Merged == gf.res.merged.val
GapCells == DOMAIN Merged

\* The value raster i (in processing order) has at cell p, and whether it is
\* data there.
InputAt(i, p) == gf.disk[gf.res.order[i]].arr.val[p]
ValidAt(i, p) == InputAt(i, p) # gf.disk[gf.res.order[i]].nodata

\* The first raster in processing order that has data at cell p.
FirstValid(p) ==
    LET has == {i \in 1..Len(gf.res.order) : ValidAt(i, p)}
    IN  CHOOSE i \in has : \A j \in has : i <= j

IsNearest(g, p) ==
    /\ Merged[g] # gf.res.nodata
    /\ \A h \in GapCells :
         Merged[h] # gf.res.nodata =>
            (p[1] - g[1]) * (p[1] - g[1]) + (p[2] - g[2]) * (p[2] - g[2])
              <= (p[1] - h[1]) * (p[1] - h[1]) + (p[2] - h[2]) * (p[2] - h[2])

\* C4: with site=None and interpolation 'nearest', gap_fill returns whenever
\* the merge left a valid cell; every cell valid after the merge keeps its
\* value, every other cell gets the value of a valid cell at minimum distance,
\* and no cell of the output is nodata; the output raster is stored at the
\* returned path.  For a list of one raster the valid cells of that raster
\* are unchanged.
C4_NearestFill ==
    gf.op = "gap_fill" /\ DOMAIN gf.disk # {} /\ gf.site = PyNone =>
        /\ (\E p \in GapCells : Merged[p] # gf.res.nodata) => gf.res.ret.kind = "ok"
        /\ gf.res.ret.kind = "ok" =>
            /\ DOMAIN gf.res.out.val = GapCells
            /\ \A p \in GapCells :
                 /\ Merged[p] # gf.res.nodata => gf.res.out.val[p] = Merged[p]
                 /\ Merged[p] = gf.res.nodata =>
                      \E g \in GapCells :
                          IsNearest(g, p) /\ gf.res.out.val[p] = Merged[g]
                 /\ gf.res.out.val[p] # gf.res.nodata
            /\ gf.res.post[gf.res.ret.val] = Unclipped(gf.res.out)
            /\ Cardinality(DOMAIN gf.disk) = 1 =>
                 \A p \in GapCells :
                     ValidAt(1, p) => gf.res.out.val[p] = InputAt(1, p)

\* One raster of two rows and two columns: the nodata cell (1, 1) has a
\* neighbour beside it and a different value across the diagonal, and took
\* the neighbour's.
C4_Witness ==
    /\ gf.op = "gap_fill"
    /\ Cardinality(DOMAIN gf.disk) = 1
    /\ gf.res.ret.kind = "ok"
    /\ gf.res.merged.rows = 2 /\ gf.res.merged.cols = 2
    /\ Merged[<<1, 1>>] = gf.res.nodata
    /\ Merged[<<2, 1>>] = gf.res.nodata
    /\ Merged[<<1, 2>>] # gf.res.nodata
    /\ Merged[<<2, 2>>] # gf.res.nodata
    /\ Merged[<<1, 2>>] # Merged[<<2, 2>>]
    /\ gf.res.out.val[<<1, 1>>] = Merged[<<1, 2>>]
    /\ gf.res.out.val[<<2, 1>>] = Merged[<<2, 2>>]

-----------------------------------------------------------------------------
(* Claims about gap_fill with a site, checked under SpecClip *)

\* The temporary path '<base>_clip<ext>' of each output path of the model.
ExpectedClip ==
    (<<"d", ".", "t", "i", "f">> :> <<"d", "_", "c", "l", "i", "p", ".", "t", "i", "f">>)
    @@ (<<"d", ".", "i", "d", "w", ".", "t", "i", "f">> :> <<"d", "_", "c", "l", "i", "p", ".", "i", "d", "w", ".", "t", "i", "f">>)
    @@ (<<"d", ".", "x", ".", "t", "i", "f">> :> <<"d", ".", "x", "_", "c", "l", "i", "p", ".", "t", "i", "f">>)
    @@ (<<"d">> :> <<"d", "_", "c", "l", "i", "p">>)
    @@ (<<"d", ".", "i", "d", "w">> :> <<"d", "_", "c", "l", "i", "p", ".", "i", "d", "w">>)
    @@ (<<"o", ".", "d", "/", "f">> :> <<"o", ".", "d", "/", "f", "_", "c", "l", "i", "p">>)
    @@ (<<"o", ".", "d", "/", "f", ".", "t", "i", "f">> :> <<"o", ".", "d", "/", "f", "_", "c", "l", "i", "p", ".", "t", "i", "f">>)
    @@ (<<".", "i", "d", "w", ".", "t", "i", "f">> :> <<".", "i", "d", "w", "_", "c", "l", "i", "p", ".", "t", "i", "f">>)
    @@ (<<"d", ".", "c", "o", "u", "n", "t", ".", "t", "i", "f">> :> <<"d", "_", "c", "l", "i", "p", ".", "c", "o", "u", "n", "t", ".", "t", "i", "f">>)

Clipped(arr) == [kind |-> "raster", clipped |-> TRUE, arr |-> arr]

\* The call wrote its raster: it did not fail before the output was written.
Wrote == gf.op = "gap_fill" /\ gf.site # PyNone /\ "out" \in DOMAIN gf.res

C9_WitnessRenameRaised ==
    /\ Wrote /\ gf.res.ret = [kind |-> "raised", msg |-> "os.rename"]
    /\ gf.res.path \notin DOMAIN gf.res.post
    /\ gf.res.post[ExpectedClip[gf.res.path]] = Clipped(gf.res.out)

-----------------------------------------------------------------------------
(* Claims about create_vrt, checked under SpecVrt *)

Calls == 1..Len(vrt_log)

\* The calls so far all had overwrite=False and the same target.
DefaultCallsOnOneTarget ==
    \A i, j \in Calls :
        ~vrt_log[i].overwrite /\ vrt_log[i].fout = vrt_log[j].fout

Invocations == {i \in Calls : vrt_log[i].invoked}

\* A call that finds the target and has overwrite=False returns it, runs
\* nothing and changes no file.
ExistingReturned ==
    \A i \in Calls :
        vrt_log[i].existed /\ ~vrt_log[i].overwrite =>
            /\ vrt_log[i].ret = vrt_log[i].fout
            /\ ~vrt_log[i].invoked
            /\ vrt_log[i].same

\* A call with overwrite=True runs the tool.
OverwriteInvokes == \A i \in Calls : vrt_log[i].overwrite => vrt_log[i].invoked

\* C8 as stated: a call that finds the target with overwrite=False returns
\* it without running gdalbuildvrt or changing a file; after calls with
\* overwrite=False on one target the tool has run at most once, and only in a
\* call that found the target absent; every call with overwrite=True runs it.
C8_InvokedAtMostOnce ==
    /\ ExistingReturned
    /\ OverwriteInvokes
    /\ DefaultCallsOnOneTarget =>
         /\ Cardinality(Invocations) <= 1
         /\ \A i \in Invocations : ~vrt_log[i].existed

\* C8, amended: a call that finds the target with overwrite=False returns it
\* without running gdalbuildvrt or changing a file; a call with
\* overwrite=False runs the tool only when it found the target absent, so
\* after calls with overwrite=False on one target at most one run of the tool
\* built the target and no call after that one ran it; every call with
\* overwrite=True runs it.
C8_InvokedWhileAbsent ==
    /\ ExistingReturned
    /\ OverwriteInvokes
    /\ \A i \in Calls :
         ~vrt_log[i].overwrite /\ vrt_log[i].invoked => ~vrt_log[i].existed
    /\ DefaultCallsOnOneTarget =>
         /\ Cardinality({i \in Invocations : vrt_log[i].present}) <= 1
         /\ \A i, j \in Calls :
              i < j /\ vrt_log[i].present => ~vrt_log[j].invoked

\* Three calls with overwrite=False on one target: the tool failed in the
\* first, built the target in the second, and was not run in the third.
C8_Witness ==
    /\ Len(vrt_log) = 3 /\ DefaultCallsOnOneTarget
    /\ vrt_log[1].invoked /\ ~vrt_log[1].present
    /\ vrt_log[2].invoked /\ vrt_log[2].present
    /\ vrt_log[3].existed /\ ~vrt_log[3].invoked /\ vrt_log[3].same

=============================================================================
